---- MODULE Spec2Model ----
(***************************************************************************)
(* Model of hospital/models.py and hospital/admin.py: the Doctor, Patient, *)
(* Appointment and PatientDischargeDetails tables, the save() overrides    *)
(* that mirror canonical fields into the legacy columns, the on_delete     *)
(* policies of the foreign keys, and the admin's calculate_total.          *)
(*                                                                         *)
(* A table is a function from primary key to row.  Every operation is one  *)
(* request: it loads a row, assigns the canonical fields, calls save() and *)
(* commits.  Money is counted in cents, a timestamp in hours, a date in    *)
(* days.                                                                   *)
(***************************************************************************)
EXTENDS Integers, Sequences, FiniteSets, TLC

VARIABLES users, doctors, patients, appointments, discharges, nextPk, last, display

vars == <<users, doctors, patients, appointments, discharges, nextPk, last, display>>

\* ---------------------------------------------------------------- bounds
\* the number of rows inserted into the four tables together
MaxRows == 3

\* null of a nullable column (ids, dates and legacy integers are all >= 0)
Null == -1

\* auth.User rows the identity provider holds
UserIds == {7, 8, 9}

\* the users that get a doctor profile, and those that get a patient profile
DoctorUsers == {7, 8}
PatientUsers == {8, 9}

Names == {[first_name |-> "A", last_name |-> "B"], [first_name |-> "Ann", last_name |-> ""]}

InitialNames == [u \in UserIds |-> IF u = 7 THEN [first_name |-> "A", last_name |-> "B"]
                                            ELSE [first_name |-> "Ann", last_name |-> ""]]

\* what a nullable foreign key to Doctor, or to Patient, may be set to
Pks == 1..MaxRows
DoctorRefs == Pks \cup {Null}
PatientRefs == Pks \cup {Null}

Contacts == {[address |-> "123 Doc St", mobile |-> "1234567890", symptoms |-> "Fever"],
             [address |-> "456 Pat St", mobile |-> "0987654321", symptoms |-> "Cough"]}

\* ---------------------------------------------------------------- helpers
\* f with row r stored under key k (an insert when k is new, else an update)
Put(f, k, r) == [x \in DOMAIN f \cup {k} |-> IF x = k THEN r ELSE f[x]]

\* f without the keys in S
Drop(f, S) == [x \in DOMAIN f \ S |-> f[x]]

\* Doctor.get_name / Patient.get_name of the row whose user is u
get_name(u) == users[u].first_name \o " " \o users[u].last_name

\* ---------------------------------------------------------------- Patient
\* a new Patient instance before its first save
NewPatient(u, doc, c) ==
    [user |-> u, assigned_doctor |-> doc, address |-> c.address, mobile |-> c.mobile,
     symptoms |-> c.symptoms, assignedDoctorId |-> Null]

Patient_save_usesPk(self) ==
    IF self.assigned_doctor # Null
    THEN [self EXCEPT !.assignedDoctorId = self.assigned_doctor]
    ELSE self

Patient_save_clears(self) ==
    IF self.assigned_doctor # Null
    THEN [self EXCEPT !.assignedDoctorId = doctors[self.assigned_doctor].user]
    ELSE [self EXCEPT !.assignedDoctorId = Null]

\* Patient.save: the row that is written
Patient_save(self) ==
    IF self.assigned_doctor # Null
    THEN [self EXCEPT !.assignedDoctorId = doctors[self.assigned_doctor].user]
    ELSE self

\* ---------------------------------------------------------------- history
\* The request served last: its name, the key of the row it wrote or deleted,
\* whether it committed, whether it saved again a row that the preceding
\* request had saved, with the same canonical fields, the instance as it was
\* when save() was entered (for a save), and the keys of the rows that
\* referenced the deleted row (for a delete).
NoRefs == [patients |-> {}, appointments |-> {}, discharges |-> {}]

Request(op, id, ok, again, old, refs) ==
    [op |-> op, id |-> id, ok |-> ok, again |-> again, old |-> old, refs |-> refs]

\* the preceding request committed a save of row id of the table whose saves are ops
JustSaved(ops, id) == last.op \in ops /\ last.id = id /\ last.ok

\* the rows inserted so far (the AutoField keys are never used again)
Inserted == (nextPk.doctor - 1) + (nextPk.patient - 1)
            + (nextPk.appointment - 1) + (nextPk.discharge - 1)

\* ---------------------------------------------------------------- on_delete
Patient_assigned_doctor_cascades == "CASCADE"

Patient_assigned_doctor_on_delete == "SET_NULL"
Appointment_patient_on_delete == "CASCADE"
Appointment_doctor_on_delete == "CASCADE"
Discharge_patient_on_delete == "CASCADE"
Discharge_assigned_doctor_on_delete == "SET_NULL"

\* keys of the rows whose foreign key fk points at pk
Referencing(rows, fk, pk) == {k \in DOMAIN rows : rows[k][fk] = pk}

OnDelete_does_nothing(rows, fk, policy, pk) == rows

\* the table rows after the row pk its foreign key fk points at is deleted
OnDelete(rows, fk, policy, pk) ==
    IF policy = "CASCADE"
    THEN Drop(rows, Referencing(rows, fk, pk))
    ELSE [k \in DOMAIN rows |->
            IF rows[k][fk] = pk THEN [rows[k] EXCEPT ![fk] = Null] ELSE rows[k]]

\* ---------------------------------------------------------------- users
\* the identity provider changes a user's names
SetUserName(u, n) ==
    /\ users[u] # n
    /\ users' = [users EXCEPT ![u] = n]
    /\ last' = Request("SetUserName", u, TRUE, FALSE, Null, NoRefs)
    /\ UNCHANGED <<doctors, patients, appointments, discharges, nextPk, display>>

\* ---------------------------------------------------------------- doctors
CreateDoctor(u) ==
    /\ Inserted < MaxRows
    /\ \A d \in DOMAIN doctors : doctors[d].user # u
    /\ doctors' = Put(doctors, nextPk.doctor, [user |-> u])
    /\ nextPk' = [nextPk EXCEPT !.doctor = @ + 1]
    /\ last' = Request("CreateDoctor", nextPk.doctor, TRUE, FALSE, Null, NoRefs)
    /\ UNCHANGED <<users, patients, appointments, discharges, display>>

DeleteDoctor(d) ==
    /\ d \in DOMAIN doctors
    /\ doctors' = Drop(doctors, {d})
    /\ patients' = OnDelete(patients, "assigned_doctor", Patient_assigned_doctor_on_delete, d)
    /\ appointments' = OnDelete(appointments, "doctor", Appointment_doctor_on_delete, d)
    /\ discharges' = OnDelete(discharges, "assigned_doctor", Discharge_assigned_doctor_on_delete, d)
    /\ last' = Request("DeleteDoctor", d, TRUE, FALSE, Null,
                       [patients |-> Referencing(patients, "assigned_doctor", d),
                        appointments |-> Referencing(appointments, "doctor", d),
                        discharges |-> Referencing(discharges, "assigned_doctor", d)])
    /\ UNCHANGED <<users, nextPk, display>>

\* ---------------------------------------------------------------- patients
PatientSaves == {"CreatePatient", "SavePatient"}

\* Patient.objects.create(user=u, assigned_doctor=doc, ...)
CreatePatient(u, doc, c) ==
    /\ Inserted < MaxRows
    /\ \A p \in DOMAIN patients : patients[p].user # u
    /\ doc \in DOMAIN doctors \cup {Null}
    /\ LET self == NewPatient(u, doc, c) IN
        /\ patients' = Put(patients, nextPk.patient, Patient_save(self))
        /\ last' = Request("CreatePatient", nextPk.patient, TRUE, FALSE, self, NoRefs)
    /\ nextPk' = [nextPk EXCEPT !.patient = @ + 1]
    /\ UNCHANGED <<users, doctors, appointments, discharges, display>>

\* the row p is loaded, its canonical fields are assigned and it is saved
SavePatient(p, doc, c) ==
    /\ p \in DOMAIN patients
    /\ doc \in DOMAIN doctors \cup {Null}
    /\ LET self == [patients[p] EXCEPT !.assigned_doctor = doc, !.address = c.address,
                                       !.mobile = c.mobile, !.symptoms = c.symptoms] IN
        /\ patients' = Put(patients, p, Patient_save(self))
        /\ last' = Request("SavePatient", p, TRUE,
                           JustSaved(PatientSaves, p) /\ self = patients[p], self, NoRefs)
    /\ UNCHANGED <<users, doctors, appointments, discharges, nextPk, display>>

DeletePatient(p) ==
    /\ p \in DOMAIN patients
    /\ patients' = Drop(patients, {p})
    /\ appointments' = OnDelete(appointments, "patient", Appointment_patient_on_delete, p)
    /\ discharges' = OnDelete(discharges, "patient", Discharge_patient_on_delete, p)
    /\ last' = Request("DeletePatient", p, TRUE, FALSE, Null,
                       [patients |-> {},
                        appointments |-> Referencing(appointments, "patient", p),
                        discharges |-> Referencing(discharges, "patient", p)])
    /\ UNCHANGED <<users, doctors, nextPk, display>>

\* ---------------------------------------------------------------- appointments
Timestamps == {23, 24}

date_rounds(ts) == (ts + 12) \div 24

\* datetime.date(): the day a timestamp in hours falls on
date(ts) == ts \div 24

\* a new Appointment instance before its first save
NewAppointment(p, d, ts) ==
    [patient |-> p, doctor |-> d, appointment_date |-> ts,
     patientId |-> Null, doctorId |-> Null, patientName |-> "", doctorName |-> "",
     appointmentDate |-> Null]

Appointment_save_swapsNames(self) ==
    LET s1 == IF self.patient # Null
              THEN [self EXCEPT !.patientId = patients[self.patient].user,
                                !.patientName = users[patients[self.patient].user].last_name
                                                \o " " \o users[patients[self.patient].user].first_name]
              ELSE self
        s2 == IF self.doctor # Null
              THEN [s1 EXCEPT !.doctorId = doctors[self.doctor].user,
                              !.doctorName = get_name(doctors[self.doctor].user)]
              ELSE s1
    IN  IF self.appointment_date # Null
        THEN [s2 EXCEPT !.appointmentDate = date(self.appointment_date)]
        ELSE s2

\* Appointment.save: the instance as super().save() receives it
Appointment_save(self) ==
    LET s1 == IF self.patient # Null
              THEN [self EXCEPT !.patientId = patients[self.patient].user,
                                !.patientName = get_name(patients[self.patient].user)]
              ELSE self
        s2 == IF self.doctor # Null
              THEN [s1 EXCEPT !.doctorId = doctors[self.doctor].user,
                              !.doctorName = get_name(doctors[self.doctor].user)]
              ELSE s1
    IN  IF self.appointment_date # Null
        THEN [s2 EXCEPT !.appointmentDate = date(self.appointment_date)]
        ELSE s2

\* appointment_date is NOT NULL: the insert or update of a row without it fails
Appointment_valid(row) == row.appointment_date # Null

AppointmentSaves == {"CreateAppointment", "SaveAppointment"}

\* Appointment.objects.create(patient=p, doctor=d, appointment_date=ts, ...)
CreateAppointment(p, d, ts) ==
    /\ Inserted < MaxRows
    /\ p \in DOMAIN patients \cup {Null}
    /\ d \in DOMAIN doctors \cup {Null}
    /\ LET self == NewAppointment(p, d, ts)
           row == Appointment_save(self)
           ok == Appointment_valid(row)
       IN /\ appointments' = IF ok THEN Put(appointments, nextPk.appointment, row)
                             ELSE appointments
          /\ nextPk' = IF ok THEN [nextPk EXCEPT !.appointment = @ + 1] ELSE nextPk
          /\ last' = Request("CreateAppointment", nextPk.appointment, ok, FALSE, self, NoRefs)
    /\ UNCHANGED <<users, doctors, patients, discharges, display>>

SaveAppointment(a, p, d, ts) ==
    /\ a \in DOMAIN appointments
    /\ p \in DOMAIN patients \cup {Null}
    /\ d \in DOMAIN doctors \cup {Null}
    /\ LET self == [appointments[a] EXCEPT !.patient = p, !.doctor = d,
                                           !.appointment_date = ts]
           row == Appointment_save(self)
           ok == Appointment_valid(row)
       IN /\ appointments' = IF ok THEN Put(appointments, a, row) ELSE appointments
          /\ last' = Request("SaveAppointment", a, ok,
                             JustSaved(AppointmentSaves, a) /\ self = appointments[a], self, NoRefs)
    /\ UNCHANGED <<users, doctors, patients, discharges, nextPk, display>>

DeleteAppointment(a) ==
    /\ a \in DOMAIN appointments
    /\ appointments' = Drop(appointments, {a})
    /\ last' = Request("DeleteAppointment", a, TRUE, FALSE, Null, NoRefs)
    /\ UNCHANGED <<users, doctors, patients, discharges, nextPk, display>>

\* ---------------------------------------------------------------- discharge
\* the stay and the bill a discharge form is filled in with
Statements == {[stay |-> [admit_date |-> 3, release_date |-> 5, day_spent |-> 2],
                bill |-> [room_charge |-> 10075, medicine_cost |-> 5000, doctor_fee |-> 20000,
                          other_charge |-> 1000, total |-> 36075]],
               [stay |-> [admit_date |-> 4, release_date |-> 4, day_spent |-> 1],
                bill |-> [room_charge |-> -50, medicine_cost |-> 199, doctor_fee |-> 99950,
                          other_charge |-> 0, total |-> 100000]],
               [stay |-> [admit_date |-> 4, release_date |-> 4, day_spent |-> 1],
                bill |-> [room_charge |-> 10000, medicine_cost |-> -10075, doctor_fee |-> 20000,
                          other_charge |-> 1000, total |-> 20925]]}

int_rounds(c) == (c + 50) \div 100

\* int() of a Decimal given in cents: the digits after the point are dropped
int(c) == IF c >= 0 THEN c \div 100 ELSE -((-c) \div 100)

\* a new PatientDischargeDetails instance before its first save
NewDischarge(p, d, stay, bill) ==
    [patient |-> p, assigned_doctor |-> d,
     admit_date |-> stay.admit_date, release_date |-> stay.release_date,
     day_spent |-> stay.day_spent,
     room_charge |-> bill.room_charge, medicine_cost |-> bill.medicine_cost,
     doctor_fee |-> bill.doctor_fee, other_charge |-> bill.other_charge,
     total |-> bill.total,
     patientId |-> Null, patientName |-> "", assignedDoctorName |-> "",
     address |-> "", mobile |-> "", symptoms |-> "",
     admitDate |-> Null, releaseDate |-> Null, daySpent |-> Null,
     roomCharge |-> Null, medicineCost |-> Null, doctorFee |-> Null, OtherCharge |-> Null]

PatientDischargeDetails_save_accumulates(self) ==
    LET s1 == IF self.patient # Null
              THEN [self EXCEPT !.patientId = patients[self.patient].user,
                                !.patientName = get_name(patients[self.patient].user),
                                !.address = patients[self.patient].address,
                                !.mobile = patients[self.patient].mobile,
                                !.symptoms = patients[self.patient].symptoms]
              ELSE self
        s2 == IF self.assigned_doctor # Null
              THEN [s1 EXCEPT !.assignedDoctorName = get_name(doctors[self.assigned_doctor].user)]
              ELSE s1
    IN  [s2 EXCEPT !.admitDate = self.admit_date,
                   !.releaseDate = self.release_date,
                   !.daySpent = (IF self.daySpent = Null THEN 0 ELSE self.daySpent) + self.day_spent,
                   !.roomCharge = int(self.room_charge),
                   !.medicineCost = int(self.medicine_cost),
                   !.doctorFee = int(self.doctor_fee),
                   !.OtherCharge = int(self.other_charge)]

\* PatientDischargeDetails.save: the instance as super().save() receives it
PatientDischargeDetails_save(self) ==
    LET s1 == IF self.patient # Null
              THEN [self EXCEPT !.patientId = patients[self.patient].user,
                                !.patientName = get_name(patients[self.patient].user),
                                !.address = patients[self.patient].address,
                                !.mobile = patients[self.patient].mobile,
                                !.symptoms = patients[self.patient].symptoms]
              ELSE self
        s2 == IF self.assigned_doctor # Null
              THEN [s1 EXCEPT !.assignedDoctorName = get_name(doctors[self.assigned_doctor].user)]
              ELSE s1
    IN  [s2 EXCEPT !.admitDate = self.admit_date,
                   !.releaseDate = self.release_date,
                   !.daySpent = self.day_spent,
                   !.roomCharge = int(self.room_charge),
                   !.medicineCost = int(self.medicine_cost),
                   !.doctorFee = int(self.doctor_fee),
                   !.OtherCharge = int(self.other_charge)]

\* the PositiveIntegerField columns carry CHECK (col >= 0)
PatientDischargeDetails_valid(row) ==
    /\ row.day_spent >= 0
    /\ row.daySpent >= 0
    /\ row.roomCharge >= 0
    /\ row.medicineCost >= 0
    /\ row.doctorFee >= 0
    /\ row.OtherCharge >= 0

DischargeSaves == {"CreateDischarge", "SaveDischarge"}

\* PatientDischargeDetails.objects.create(patient=p, assigned_doctor=d, ...)
CreateDischarge(p, d, stay, bill) ==
    /\ Inserted < MaxRows
    /\ p \in DOMAIN patients \cup {Null}
    /\ d \in DOMAIN doctors \cup {Null}
    /\ LET self == NewDischarge(p, d, stay, bill)
           row == PatientDischargeDetails_save(self)
           ok == PatientDischargeDetails_valid(row)
       IN /\ discharges' = IF ok THEN Put(discharges, nextPk.discharge, row) ELSE discharges
          /\ nextPk' = IF ok THEN [nextPk EXCEPT !.discharge = @ + 1] ELSE nextPk
          /\ last' = Request("CreateDischarge", nextPk.discharge, ok, FALSE, self, NoRefs)
    /\ UNCHANGED <<users, doctors, patients, appointments, display>>

SaveDischarge(k, p, d, stay, bill) ==
    /\ k \in DOMAIN discharges
    /\ p \in DOMAIN patients \cup {Null}
    /\ d \in DOMAIN doctors \cup {Null}
    /\ LET self == [discharges[k] EXCEPT
                       !.patient = p, !.assigned_doctor = d,
                       !.admit_date = stay.admit_date, !.release_date = stay.release_date,
                       !.day_spent = stay.day_spent,
                       !.room_charge = bill.room_charge, !.medicine_cost = bill.medicine_cost,
                       !.doctor_fee = bill.doctor_fee, !.other_charge = bill.other_charge,
                       !.total = bill.total]
           row == PatientDischargeDetails_save(self)
           ok == PatientDischargeDetails_valid(row)
       IN /\ discharges' = IF ok THEN Put(discharges, k, row) ELSE discharges
          /\ last' = Request("SaveDischarge", k, ok,
                             JustSaved(DischargeSaves, k) /\ self = discharges[k], self, NoRefs)
    /\ UNCHANGED <<users, doctors, patients, appointments, nextPk, display>>

DeleteDischarge(k) ==
    /\ k \in DOMAIN discharges
    /\ discharges' = Drop(discharges, {k})
    /\ last' = Request("DeleteDischarge", k, TRUE, FALSE, Null, NoRefs)
    /\ UNCHANGED <<users, doctors, patients, appointments, nextPk, display>>

\* ---------------------------------------------------------------- float
\* A Python float (IEEE 754 binary64) is its sign and its magnitude, the
\* magnitude a whole number of units of 2^-64 written in limbs of LimbBits
\* bits, least significant limb first, without leading zero limbs.  Every
\* float nearest to an amount of 0.01 to 10^8, and every sum of such floats,
\* is a whole number of these units.
LimbBits == 16
Base == 2 ^ LimbBits
ScaleLimbs == 4
Mantissa == 53

\* limbs of the natural number n
RECURSIVE Limbs(_)
Limbs(n) == IF n = 0 THEN <<>> ELSE <<n % Base>> \o Limbs(n \div Base)

Reverse(a) == [i \in 1..Len(a) |-> a[Len(a) + 1 - i]]

RECURSIVE Strip(_)
Strip(a) == IF a # <<>> /\ a[Len(a)] = 0 THEN Strip(SubSeq(a, 1, Len(a) - 1)) ELSE a

Limb(a, i) == IF i <= Len(a) THEN a[i] ELSE 0

Longer(a, b) == IF Len(a) >= Len(b) THEN Len(a) ELSE Len(b)

\* a + b from limb i on, with carry c
RECURSIVE AddFrom(_, _, _, _)
AddFrom(a, b, i, c) ==
    IF i > Longer(a, b)
    THEN (IF c = 1 THEN <<1>> ELSE <<>>)
    ELSE LET t == Limb(a, i) + Limb(b, i) + c
         IN <<t % Base>> \o AddFrom(a, b, i + 1, t \div Base)

MagAdd(a, b) == Strip(AddFrom(a, b, 1, 0))

\* a - b (a >= b) from limb i on, with borrow c
RECURSIVE SubFrom(_, _, _, _)
SubFrom(a, b, i, c) ==
    IF i > Len(a)
    THEN <<>>
    ELSE LET t == Limb(a, i) - Limb(b, i) - c
         IN <<t % Base>> \o SubFrom(a, b, i + 1, IF t < 0 THEN 1 ELSE 0)

MagSub(a, b) == Strip(SubFrom(a, b, 1, 0))

\* a < b
MagLess(a, b) ==
    \/ Len(a) < Len(b)
    \/ /\ Len(a) = Len(b)
       /\ \E i \in 1..Len(a) :
             /\ a[i] < b[i]
             /\ \A j \in (i + 1)..Len(a) : a[j] = b[j]

\* the number of binary digits of a
BitLength(a) ==
    IF a = <<>>
    THEN 0
    ELSE LimbBits * (Len(a) - 1)
         + CHOOSE n \in 1..LimbBits : 2 ^ (n - 1) <= a[Len(a)] /\ a[Len(a)] < 2 ^ n

\* binary digit i of a, digit 1 the least significant
BitAt(a, i) == (Limb(a, (i - 1) \div LimbBits + 1) \div 2 ^ ((i - 1) % LimbBits)) % 2

\* a rounded to Mantissa significant bits, to nearest, ties to even; inexact
\* tells that a is the floor of a number that is not whole
RoundToNearestEven(a, inexact) ==
    IF BitLength(a) <= Mantissa
    THEN a
    ELSE LET k == BitLength(a) - Mantissa
             q == k \div LimbBits
             o == k % LimbBits
             sticky == inexact \/ \E i \in 1..(k - 1) : BitAt(a, i) = 1
             up == BitAt(a, k) = 1 /\ (sticky \/ BitAt(a, k + 1) = 1)
             kept == [j \in 1..Len(a) |->
                        IF j <= q THEN 0
                        ELSE IF j = q + 1 THEN (a[j] \div 2 ^ o) * 2 ^ o
                        ELSE a[j]]
             ulp == [j \in 1..(q + 1) |-> IF j = q + 1 THEN 2 ^ o ELSE 0]
         IN IF up THEN MagAdd(kept, ulp) ELSE kept

\* the limbs m (most significant first) from limb i on divided by 100, with
\* r the remainder so far: the quotient's limbs, then the remainder
RECURSIVE DivideBy100(_, _, _)
DivideBy100(m, i, r) ==
    IF i > Len(m)
    THEN <<r>>
    ELSE <<(r * Base + m[i]) \div 100>> \o DivideBy100(m, i + 1, (r * Base + m[i]) % 100)

Abs(c) == IF c < 0 THEN -c ELSE c

\* float(d) of the Decimal d of c cents: the float nearest to c / 100
float(c) ==
    LET m == Reverse(Limbs(Abs(c))) \o [i \in 1..ScaleLimbs |-> 0]
        d == DivideBy100(m, 1, 0)
        q == SubSeq(d, 1, Len(m))
    IN [neg |-> c < 0, mag |-> RoundToNearestEven(Strip(Reverse(q)), d[Len(d)] # 0)]

\* x + y of two floats: the exact sum, rounded
FloatAdd(x, y) ==
    IF x.neg = y.neg
    THEN [neg |-> x.neg, mag |-> RoundToNearestEven(MagAdd(x.mag, y.mag), FALSE)]
    ELSE IF MagLess(x.mag, y.mag)
    THEN [neg |-> y.neg, mag |-> RoundToNearestEven(MagSub(y.mag, x.mag), FALSE)]
    ELSE IF x.mag = y.mag
    THEN [neg |-> FALSE, mag |-> <<>>]
    ELSE [neg |-> x.neg, mag |-> RoundToNearestEven(MagSub(x.mag, y.mag), FALSE)]

\* x == y of two floats (0.0 == -0.0)
FloatEq(x, y) == x.mag = y.mag /\ (x.neg = y.neg \/ x.mag = <<>>)

\* ---------------------------------------------------------------- admin
\* PatientDischargeDetailsAdmin.calculate_total(obj): '-' for an instance
\* without primary key, else the green "Correct" line with the sum or the
\* red "Mismatch" line with the stated total and the sum
calculate_total(obj) ==
    IF obj.pk # Null /\ obj.pk # 0
    THEN LET calculated == FloatAdd(FloatAdd(FloatAdd(float(obj.room_charge),
                                                     float(obj.medicine_cost)),
                                            float(obj.doctor_fee)),
                                   float(obj.other_charge))
         IN IF FloatEq(calculated, float(obj.total))
            THEN [kind |-> "Correct", calculated |-> calculated]
            ELSE [kind |-> "Mismatch", total |-> obj.total, calculated |-> calculated]
    ELSE [kind |-> "-"]

\* the instance the admin form of row k holds
Instance(k) == [pk |-> k] @@ discharges[k]

\* the change page of row k renders the read-only calculate_total field
ChangeView(k) ==
    /\ k \in DOMAIN discharges
    /\ display' = calculate_total(Instance(k))
    /\ last' = Request("ChangeView", k, TRUE, FALSE, Instance(k), NoRefs)
    /\ UNCHANGED <<users, doctors, patients, appointments, discharges, nextPk>>

\* the add page renders the field for the unsaved instance of its form
AddView(stay, bill) ==
    LET obj == [pk |-> Null] @@ NewDischarge(Null, Null, stay, bill) IN
    /\ display' = calculate_total(obj)
    /\ last' = Request("AddView", Null, TRUE, FALSE, obj, NoRefs)
    /\ UNCHANGED <<users, doctors, patients, appointments, discharges, nextPk>>

\* ---------------------------------------------------------------- start
NoDisplay == [kind |-> "none"]

Init ==
    /\ users = InitialNames
    /\ doctors = <<>>
    /\ patients = <<>>
    /\ appointments = <<>>
    /\ discharges = <<>>
    /\ nextPk = [doctor |-> 1, patient |-> 1, appointment |-> 1, discharge |-> 1]
    /\ last = Request("Init", Null, TRUE, FALSE, Null, NoRefs)
    /\ display = NoDisplay

\* the contact fields of a specification that does not vary them
Contact0 == [address |-> "123 Doc St", mobile |-> "1234567890", symptoms |-> "Fever"]

\* Doctors and Patients
NextPatient ==
    \/ \E u \in DoctorUsers : CreateDoctor(u)
    \/ \E d \in Pks : DeleteDoctor(d)
    \/ \E u \in PatientUsers, doc \in DoctorRefs, c \in Contacts : CreatePatient(u, doc, c)
    \/ \E p \in Pks, doc \in DoctorRefs, c \in Contacts : SavePatient(p, doc, c)
    \/ \E p \in Pks : DeletePatient(p)

SpecPatient == Init /\ [][NextPatient]_vars

\* the timestamp of a specification that does not vary it
Timestamp0 == CHOOSE ts \in Timestamps : \A other \in Timestamps : ts <= other

\* One Doctor and one Patient profile whose users are renamed, and Appointments
NextAppointment ==
    \/ \E u \in {7, 8}, n \in Names : SetUserName(u, n)
    \/ CreateDoctor(7)
    \/ CreatePatient(8, Null, Contact0)
    \/ \E p \in PatientRefs, d \in DoctorRefs : CreateAppointment(p, d, Timestamp0)
    \/ \E a \in Pks, p \in PatientRefs, d \in DoctorRefs : SaveAppointment(a, p, d, Timestamp0)

SpecAppointment == Init /\ [][NextAppointment]_vars

\* One Doctor and one Patient profile, and Appointments at several times
NextAppointmentDate ==
    \/ CreateDoctor(7)
    \/ CreatePatient(8, Null, Contact0)
    \/ \E p \in PatientRefs, d \in DoctorRefs, ts \in Timestamps \cup {Null} : CreateAppointment(p, d, ts)
    \/ \E a \in Pks, p \in PatientRefs, d \in DoctorRefs, ts \in Timestamps \cup {Null} :
           SaveAppointment(a, p, d, ts)
    \/ \E a \in Pks : DeleteAppointment(a)

SpecAppointmentDate == Init /\ [][NextAppointmentDate]_vars

\* One Doctor and one Patient profile, and PatientDischargeDetails
NextDischarge ==
    \/ \E u \in {7, 8}, n \in Names : SetUserName(u, n)
    \/ CreateDoctor(7)
    \/ \E d \in Pks : DeleteDoctor(d)
    \/ \E c \in Contacts : CreatePatient(8, Null, c)
    \/ \E p \in Pks, c \in Contacts : SavePatient(p, Null, c)
    \/ \E p \in PatientRefs, d \in DoctorRefs, t \in Statements :
           CreateDischarge(p, d, t.stay, t.bill)
    \/ \E k \in Pks, p \in PatientRefs, d \in DoctorRefs, t \in Statements :
           SaveDischarge(k, p, d, t.stay, t.bill)

SpecDischarge == Init /\ [][NextDischarge]_vars

\* All four tables: every create, save and delete
Next ==
    \/ CreateDoctor(7)
    \/ \E d \in Pks : DeleteDoctor(d)
    \/ \E doc \in DoctorRefs : CreatePatient(8, doc, Contact0)
    \/ \E p \in Pks, doc \in DoctorRefs : SavePatient(p, doc, Contact0)
    \/ \E p \in Pks : DeletePatient(p)
    \/ \E p \in PatientRefs, d \in DoctorRefs : CreateAppointment(p, d, Timestamp0)
    \/ \E a \in Pks, p \in PatientRefs, d \in DoctorRefs : SaveAppointment(a, p, d, Timestamp0)
    \/ \E a \in Pks : DeleteAppointment(a)
    \/ \E p \in PatientRefs, d \in DoctorRefs, t \in Statements :
           CreateDischarge(p, d, t.stay, t.bill)
    \/ \E k \in Pks, p \in PatientRefs, d \in DoctorRefs, t \in Statements :
           SaveDischarge(k, p, d, t.stay, t.bill)
    \/ \E k \in Pks : DeleteDischarge(k)

Spec == Init /\ [][Next]_vars

\* the stay of a specification that does not vary it
Stay0 == [admit_date |-> 3, release_date |-> 5, day_spent |-> 2]

\* the bills of the specification of the admin's total check, in cents
BillingBills ==
    {[room_charge |-> 10000, medicine_cost |-> 5000, doctor_fee |-> 20000,
      other_charge |-> 1000, total |-> 36000],
     [room_charge |-> 10000, medicine_cost |-> 5000, doctor_fee |-> 20000,
      other_charge |-> 1000, total |-> 35000],
     [room_charge |-> 10, medicine_cost |-> 20, doctor_fee |-> 0,
      other_charge |-> 0, total |-> 30],
     [room_charge |-> -50, medicine_cost |-> 199, doctor_fee |-> 99950,
      other_charge |-> 1, total |-> 100100],
     [room_charge |-> 110, medicine_cost |-> 220, doctor_fee |-> 330,
      other_charge |-> 0, total |-> 660]}

\* PatientDischargeDetails rows and the admin pages that show the total check
NextBilling ==
    \/ \E bill \in BillingBills : CreateDischarge(Null, Null, Stay0, bill)
    \/ \E k \in Pks : DeleteDischarge(k)
    \/ \E k \in Pks : ChangeView(k)
    \/ \E bill \in BillingBills : AddView(Stay0, bill)

SpecBilling == Init /\ [][NextBilling]_vars

\* ================================================================ claims
\* the row the last request wrote
SavedPatient == patients[last.id]
SavedAppointment == appointments[last.id]
SavedDischarge == discharges[last.id]

\* first name and last name joined by one space
FullName(u) == users[u].first_name \o " " \o users[u].last_name

\* n is c cents with the digits after the point dropped
Truncated(c, n) ==
    /\ c >= 0 => (100 * n <= c /\ c < 100 * n + 100)
    /\ c < 0 => (100 * n >= c /\ c > 100 * n - 100)

\* C1: after Patient.save of a Patient whose assigned_doctor is set,
\* assignedDoctorId is the user id of that Doctor, whatever it held before.
C1_PatientSaveSyncsDoctorId ==
    (last.op \in PatientSaves /\ last.ok /\ last.old.assigned_doctor # Null)
        => SavedPatient.assignedDoctorId = doctors[last.old.assigned_doctor].user

\* a Patient whose assignedDoctorId held another Doctor's user id was saved
C1_Witness ==
    /\ last.op = "SavePatient"
    /\ last.old.assigned_doctor # Null
    /\ last.old.assignedDoctorId # Null
    /\ last.old.assignedDoctorId # SavedPatient.assignedDoctorId

\* C2: in every state each persisted Patient has assignedDoctorId equal to
\* its Doctor's user id when assigned_doctor is set, and null when it is null.
C2_MirrorInvariant ==
    \A p \in DOMAIN patients :
        IF patients[p].assigned_doctor # Null
        THEN patients[p].assignedDoctorId = doctors[patients[p].assigned_doctor].user
        ELSE patients[p].assignedDoctorId = Null

\* C3: after Appointment.save with patient and doctor both set, patientId and
\* doctorId are the two user ids and patientName and doctorName are the two
\* users' first and last names joined by one space, as they are at the save.
C3_AppointmentSaveSyncsIdsAndNames ==
    (last.op \in AppointmentSaves /\ last.ok
        /\ last.old.patient # Null /\ last.old.doctor # Null)
        => LET pu == patients[last.old.patient].user
               du == doctors[last.old.doctor].user
           IN /\ SavedAppointment.patientId = pu
              /\ SavedAppointment.doctorId = du
              /\ SavedAppointment.patientName = FullName(pu)
              /\ SavedAppointment.doctorName = FullName(du)

\* an Appointment that held older names of both users was saved again
C3_Witness ==
    /\ last.op = "SaveAppointment" /\ last.ok
    /\ last.old.patient # Null /\ last.old.doctor # Null
    /\ last.old.patientName \notin {"", SavedAppointment.patientName}
    /\ last.old.doctorName \notin {"", SavedAppointment.doctorName}
    /\ SavedAppointment.patientName # SavedAppointment.doctorName

\* C4: after every save of a PatientDischargeDetails row every legacy field
\* holds the value derived from the canonical fields at that save (that of
\* no reference when the reference is null), none keeps an earlier value.
C4_NoStaleLegacy ==
    (last.op \in DischargeSaves /\ last.ok)
        => LET r == SavedDischarge
               p == r.patient
               d == r.assigned_doctor
           IN /\ r.patientId = (IF p # Null THEN patients[p].user ELSE Null)
              /\ r.patientName = (IF p # Null THEN FullName(patients[p].user) ELSE "")
              /\ r.address = (IF p # Null THEN patients[p].address ELSE "")
              /\ r.mobile = (IF p # Null THEN patients[p].mobile ELSE "")
              /\ r.symptoms = (IF p # Null THEN patients[p].symptoms ELSE "")
              /\ r.assignedDoctorName = (IF d # Null THEN FullName(doctors[d].user) ELSE "")
              /\ r.admitDate = r.admit_date
              /\ r.releaseDate = r.release_date
              /\ r.daySpent = r.day_spent
              /\ Truncated(r.room_charge, r.roomCharge)
              /\ Truncated(r.medicine_cost, r.medicineCost)
              /\ Truncated(r.doctor_fee, r.doctorFee)
              /\ Truncated(r.other_charge, r.OtherCharge)

\* C5: calculate_total gives exactly one of three outcomes: not evaluable
\* for an instance without primary key; match when the total equals the sum
\* of the four charges as decimals; mismatch, carrying the stated total and
\* the expected sum, when they differ.
C5_TotalCheckIsExactDecimal ==
    last.op \in {"ChangeView", "AddView"} =>
        LET obj == last.old
            expected == obj.room_charge + obj.medicine_cost + obj.doctor_fee + obj.other_charge
        IN IF obj.pk = Null
           THEN display.kind = "-"
           ELSE IF obj.total = expected
           THEN display.kind = "Correct"
           ELSE /\ display.kind = "Mismatch"
                /\ display.total = obj.total
                /\ FloatEq(display.calculated, float(expected))

\* C6: after every save of a PatientDischargeDetails row the four integer
\* legacy charges are the canonical charges truncated toward zero.
C6_ChargesTruncated ==
    (last.op \in DischargeSaves /\ last.ok)
        => /\ Truncated(SavedDischarge.room_charge, SavedDischarge.roomCharge)
           /\ Truncated(SavedDischarge.medicine_cost, SavedDischarge.medicineCost)
           /\ Truncated(SavedDischarge.doctor_fee, SavedDischarge.doctorFee)
           /\ Truncated(SavedDischarge.other_charge, SavedDischarge.OtherCharge)

\* 100.75 was saved as 100, and in another row -0.50 as 0 and 1.99 as 1
C6_Witness ==
    /\ last.op \in DischargeSaves /\ last.ok
    /\ \E k \in DOMAIN discharges :
          discharges[k].room_charge = 10075 /\ discharges[k].roomCharge = 100
    /\ \E k \in DOMAIN discharges :
          /\ discharges[k].room_charge = -50 /\ discharges[k].roomCharge = 0
          /\ discharges[k].medicine_cost = 199 /\ discharges[k].medicineCost = 1

\* C7: deleting a Doctor leaves every Patient that referenced it persisted
\* with assigned_doctor null; deleting a Patient deletes every Appointment
\* and every PatientDischargeDetails row that referenced it.
C7_DeletionPolicy ==
    /\ last.op = "DeleteDoctor" =>
          \A p \in last.refs.patients :
              p \in DOMAIN patients /\ patients[p].assigned_doctor = Null
    /\ last.op = "DeletePatient" =>
          /\ \A a \in last.refs.appointments : a \notin DOMAIN appointments
          /\ \A k \in last.refs.discharges : k \notin DOMAIN discharges
          /\ \A a \in DOMAIN appointments : appointments[a].patient # last.id
          /\ \A k \in DOMAIN discharges : discharges[k].patient # last.id

\* a Patient that an Appointment and a discharge row referenced was deleted
C7_Witness ==
    /\ last.op = "DeletePatient"
    /\ last.refs.appointments # {}
    /\ last.refs.discharges # {}

\* C8: a row saved again right after its save, with the same canonical
\* fields, has the same legacy fields after the second save as after the first.
C8_SaveIdempotent ==
    last.again =>
        /\ last.ok
        /\ last.op = "SavePatient" =>
              SavedPatient.assignedDoctorId = last.old.assignedDoctorId
        /\ last.op = "SaveAppointment" =>
              /\ SavedAppointment.patientId = last.old.patientId
              /\ SavedAppointment.patientName = last.old.patientName
              /\ SavedAppointment.doctorId = last.old.doctorId
              /\ SavedAppointment.doctorName = last.old.doctorName
              /\ SavedAppointment.appointmentDate = last.old.appointmentDate
        /\ last.op = "SaveDischarge" =>
              /\ SavedDischarge.patientId = last.old.patientId
              /\ SavedDischarge.patientName = last.old.patientName
              /\ SavedDischarge.address = last.old.address
              /\ SavedDischarge.mobile = last.old.mobile
              /\ SavedDischarge.symptoms = last.old.symptoms
              /\ SavedDischarge.assignedDoctorName = last.old.assignedDoctorName
              /\ SavedDischarge.admitDate = last.old.admitDate
              /\ SavedDischarge.releaseDate = last.old.releaseDate
              /\ SavedDischarge.daySpent = last.old.daySpent
              /\ SavedDischarge.roomCharge = last.old.roomCharge
              /\ SavedDischarge.medicineCost = last.old.medicineCost
              /\ SavedDischarge.doctorFee = last.old.doctorFee
              /\ SavedDischarge.OtherCharge = last.old.OtherCharge

\* a discharge row with both references set was saved twice in a row
C8_Witness ==
    /\ last.again
    /\ last.op = "SaveDischarge"
    /\ last.old.patient # Null
    /\ last.old.assigned_doctor # Null

\* C9: every persisted Appointment has appointmentDate equal to the day of
\* its appointment_date, whether or not patient and doctor are set.
C9_AppointmentDateIsDatePart ==
    \A a \in DOMAIN appointments :
        /\ 24 * appointments[a].appointmentDate <= appointments[a].appointment_date
        /\ appointments[a].appointment_date < 24 * (appointments[a].appointmentDate + 1)

\* an Appointment without patient and doctor was saved with another day
C9_Witness ==
    /\ last.op = "SaveAppointment" /\ last.ok
    /\ last.old.patient = Null /\ last.old.doctor = Null
    /\ last.old.appointmentDate # SavedAppointment.appointmentDate
    /\ SavedAppointment.appointment_date = 23

\* the charges of the instance pass the CHECK (col >= 0) of the legacy columns
ChargesStorable(r) ==
    /\ r.room_charge > -100
    /\ r.medicine_cost > -100
    /\ r.doctor_fee > -100
    /\ r.other_charge > -100

\* C10: a save with a null reference is not rejected for it, and the legacy
\* fields derived from that reference keep the values they had before.
C10_NullReferenceKeepsLegacy ==
    /\ (last.op \in PatientSaves /\ last.old.assigned_doctor = Null) =>
          /\ last.ok
          /\ SavedPatient.assignedDoctorId = last.old.assignedDoctorId
    /\ (last.op \in AppointmentSaves /\ last.old.patient = Null) =>
          /\ last.ok
          /\ SavedAppointment.patientId = last.old.patientId
          /\ SavedAppointment.patientName = last.old.patientName
    /\ (last.op \in AppointmentSaves /\ last.old.doctor = Null) =>
          /\ last.ok
          /\ SavedAppointment.doctorId = last.old.doctorId
          /\ SavedAppointment.doctorName = last.old.doctorName
    /\ (last.op \in DischargeSaves /\ last.old.patient = Null /\ ChargesStorable(last.old)) =>
          /\ last.ok
          /\ SavedDischarge.patientId = last.old.patientId
          /\ SavedDischarge.patientName = last.old.patientName
          /\ SavedDischarge.address = last.old.address
          /\ SavedDischarge.mobile = last.old.mobile
          /\ SavedDischarge.symptoms = last.old.symptoms
    /\ (last.op \in DischargeSaves /\ last.old.assigned_doctor = Null /\ ChargesStorable(last.old)) =>
          /\ last.ok
          /\ SavedDischarge.assignedDoctorName = last.old.assignedDoctorName

\* a discharge row that mirrored a Patient and a Doctor was saved with both
\* references null
C10_Witness ==
    /\ last.op = "SaveDischarge" /\ last.ok
    /\ last.old.patient = Null /\ last.old.assigned_doctor = Null
    /\ last.old.patientId # Null
    /\ last.old.address # ""
    /\ last.old.assignedDoctorName # ""

\* C11: in every state every non-null patient or doctor reference of a
\* persisted Patient, Appointment or PatientDischargeDetails row points to a
\* row that exists; deleting a Doctor deletes every Appointment that
\* referenced it and leaves every PatientDischargeDetails row that referenced
\* it persisted with assigned_doctor null.
C11_ReferentialIntegrity ==
    /\ \A p \in DOMAIN patients :
          patients[p].assigned_doctor \in DOMAIN doctors \cup {Null}
    /\ \A a \in DOMAIN appointments :
          /\ appointments[a].patient \in DOMAIN patients \cup {Null}
          /\ appointments[a].doctor \in DOMAIN doctors \cup {Null}
    /\ \A k \in DOMAIN discharges :
          /\ discharges[k].patient \in DOMAIN patients \cup {Null}
          /\ discharges[k].assigned_doctor \in DOMAIN doctors \cup {Null}
    /\ last.op = "DeleteDoctor" =>
          /\ \A a \in last.refs.appointments : a \notin DOMAIN appointments
          /\ \A k \in last.refs.discharges :
                k \in DOMAIN discharges /\ discharges[k].assigned_doctor = Null

\* a Doctor that an Appointment and a discharge row referenced was deleted
C11_Witness ==
    /\ last.op = "DeleteDoctor"
    /\ last.refs.appointments # {}
    /\ last.refs.discharges # {}
    /\ last.id \notin DOMAIN doctors

====
